---------------------------- MODULE Spec2Model ----------------------------
(***************************************************************************)
(* A model of winmem_decompress.py: the plain LZ77 decoder                 *)
(* (LZ77DecompressBuffer), run one statement group at a time, and the      *)
(* scanning pipeline around it (ScanBuffer, ScanFile, the worker pool).    *)
(* Positions are 0-based as in the source; TLA+ sequences are 1-based, so  *)
(* byte p of a buffer is buf[p + 1].                                       *)
(***************************************************************************)
EXTENDS Integers, Sequences, FiniteSets, TLC

VARIABLES
    Buffer,              \* the argument of LZ77DecompressBuffer
    write_ceiling,       \* line 24: the ceiling, <<unit, count>> for unit * count
    BufferedFlags,       \* line 28
    BufferedFlagCount,   \* line 29
    InputPosition,       \* line 30
    OutputPosition,      \* line 31
    LastLengthHalfByte,  \* line 32
    OutputObject,        \* line 26: the contents of the BytesIO
    MatchLength,         \* line 85
    MatchOffset,         \* line 86
    i,                   \* line 146: the copy loop's index
    pc,                  \* where the decoder stands
    OutputBuffer,        \* lines 72, 174: the value returned
    exc,                 \* the exception that left the function, "" if none
    FilePath,            \* line 247: the file scanned, a key of Files
    file_size,           \* line 216
    file_pos,            \* line 218
    buf,                 \* line 221
    compressed_data_to_process,  \* line 186
    taskqueue,           \* the pool: batches of windows no worker has taken
    worker,              \* the pool: the batch each worker process decodes
    items,               \* the pool: finished batches, in completion order
    current,             \* line 197: what is left of the batch being iterated
    outstanding,         \* line 197: batches the iterator has yet to hand out
    stdout,              \* line 256: the pages written
    spc                  \* where the main process stands

dvars == <<BufferedFlags, BufferedFlagCount, InputPosition,
           OutputPosition, LastLengthHalfByte, OutputObject, MatchLength,
           MatchOffset, i, pc, OutputBuffer, exc>>

pvars == <<FilePath, file_size, file_pos, buf, compressed_data_to_process,
           taskqueue, worker, items, current, outstanding, stdout, spc>>

vars == <<Buffer, write_ceiling, dvars, pvars>>

(***************************************************************************)
(* Python's operations on bytes, as the decoder uses them.                 *)
(***************************************************************************)
Min(a, b) == IF a < b THEN a ELSE b

Max(a, b) == IF a < b THEN b ELSE a

Pow2(n) == 2 ^ n

\* data[a : b] for 0 <= a <= b: the bytes that exist, never an error.
Slice(data, a, b) == SubSeq(data, a + 1, Min(b, Len(data)))

\* data[p]: the byte, or IndexError when p is outside the buffer.
Index(data, p) ==
    IF p >= 0 /\ p < Len(data) THEN [ok |-> TRUE, val |-> data[p + 1]]
    ELSE IF p < 0 /\ p >= 0 - Len(data)
    THEN [ok |-> TRUE, val |-> data[Len(data) + p + 1]]
    ELSE [ok |-> FALSE, val |-> "IndexError"]

\* struct.unpack('<H', b): the 16-bit value of two bytes, low byte first.
unpackH(bytes) ==
    IF Len(bytes) = 2 THEN [ok |-> TRUE, val |-> bytes[1] + 256 * bytes[2]]
    ELSE [ok |-> FALSE, val |-> "struct.error"]

\* struct.unpack('<L', b): the 32-bit value of four bytes, low byte first.
\* TLC's integers end at 2^31 - 1, so the value is kept as its four base-256
\* digits, least significant first; FlagBit reads a bit of it.
unpackL(bytes) ==
    IF Len(bytes) = 4 THEN [ok |-> TRUE, val |-> bytes]
    ELSE [ok |-> FALSE, val |-> "struct.error"]

\* the bits counted from the other end of the word
FlagBit_LsbFirst(flags, n) ==
    (flags[((31 - n) \div 8) + 1] \div Pow2((31 - n) % 8)) % 2

\* flags & (1 << n), as 0 or 1, for a 32-bit value held as unpackL gives it
FlagBit(flags, n) == (flags[(n \div 8) + 1] \div Pow2(n % 8)) % 2

\* OutputObject.seek(p): ValueError on a negative position.
seek(p) ==
    IF p >= 0 THEN [ok |-> TRUE, val |-> p]
    ELSE [ok |-> FALSE, val |-> "ValueError"]

\* OutputObject.seek(p); OutputObject.read(1): the bytes read (one, or none
\* at or after the end of the contents).
read1(obj, p) == Slice(obj, p, p + 1)

\* OutputObject.seek(p); OutputObject.write(b): overwrite inside, append at
\* the end, zero-fill a gap.
write1(obj, p, b) ==
    [k \in 1..Max(Len(obj), p + 1) |->
        IF k = p + 1 THEN b ELSE IF k <= Len(obj) THEN obj[k] ELSE 0]

\* write1 as the decoder meets it: the position is the end of the contents
\* in every state the decoder reaches, and the general case is kept.
write(obj, p, b) == IF p = Len(obj) THEN Append(obj, b) ELSE write1(obj, p, b)

(***************************************************************************)
(* LZ77DecompressBuffer, lines 20-177.  A decoder state is a record of the *)
(* function's locals; each operator below is one statement group and maps  *)
(* a state to the next one.                                                *)
(***************************************************************************)
\* line 24: 2*1024*1024*1024, as 1024 times 2*1024*1024.  The ceiling is
\* 2^31, one more than TLC's largest integer, so it is held as a unit and a
\* count of units.
ProgramCeiling == <<1024, 2 * 1024 * 1024>>

\* lines 23-24 with "<=" for "<"
is_valid_write_request_Inclusive(offset) ==
    offset <= write_ceiling[1] * write_ceiling[2]

\* lines 23-24: offset < ceiling.  The comparison is made on the offset in
\* units (equivalent, since the unit divides the ceiling).
is_valid_write_request(offset) ==
    offset \div write_ceiling[1] < write_ceiling[2]

\* lines 26-32
DecoderInit ==
    [BufferedFlags |-> <<0, 0, 0, 0>>, BufferedFlagCount |-> 0, InputPosition |-> 0,
     OutputPosition |-> 0, LastLengthHalfByte |-> 0, OutputObject |-> <<>>,
     MatchLength |-> 0, MatchOffset |-> 0, i |-> 0, pc |-> "loop",
     OutputBuffer |-> <<>>, exc |-> ""]

\* an exception no try/except of the function catches
Raise(s, name) == [s EXCEPT !.pc = "raised", !.exc = name]

\* a "break" out of the while loop (lines 40, 53, 65, 80, ..., 171)
Break(s) == [s EXCEPT !.pc = "break"]

\* line 38 testing for no bytes at all
ShortFlagWord_Empty(bytes) == Len(bytes) = 0

\* line 38
ShortFlagWord(bytes) == Len(bytes) # 4

\* line 48 with the flag's sense turned round
FlagIsLiteral_Inverted(flags, count) == FlagBit(flags, count) = 1

\* line 48: the flag bit at BufferedFlagCount is clear
FlagIsLiteral(flags, count) == FlagBit(flags, count) = 0

\* lines 35-48: refill the flag word when it is used up, take the next flag
LoopTop(Buf, s) ==
    LET bytes == Slice(Buf, s.InputPosition, s.InputPosition + 4)
        word == unpackL(bytes)
        t == IF s.BufferedFlagCount = 0
             THEN [s EXCEPT !.BufferedFlags = word.val,
                            !.InputPosition = @ + 4,
                            !.BufferedFlagCount = 32]
             ELSE s
        u == [t EXCEPT !.BufferedFlagCount = @ - 1]
    IN  IF s.BufferedFlagCount = 0 /\ ShortFlagWord(bytes)
        THEN Break([s EXCEPT !.BufferedFlags = bytes])
        ELSE IF s.BufferedFlagCount = 0 /\ ~word.ok
        THEN Raise(s, word.val)
        ELSE [u EXCEPT !.pc = IF FlagIsLiteral(u.BufferedFlags,
                                               u.BufferedFlagCount)
                              THEN "literal" ELSE "match"]

\* lines 49-68 without line 67: the input position stays
Literal_NoAdvance(Buf, s) ==
    LET OneByte == Index(Buf, s.InputPosition)
    IN  IF ~OneByte.ok \/ ~is_valid_write_request(s.OutputPosition)
        THEN Break(s)
        ELSE [s EXCEPT !.OutputObject = write(@, s.OutputPosition,
                                              OneByte.val),
                       !.OutputPosition = @ + 1,
                       !.pc = "loop"]

\* lines 49-68 without line 68: the output position stays
Literal_NoOutputAdvance(Buf, s) ==
    LET OneByte == Index(Buf, s.InputPosition)
    IN  IF ~OneByte.ok \/ ~is_valid_write_request(s.OutputPosition)
        THEN Break(s)
        ELSE [s EXCEPT !.OutputObject = write1(@, s.OutputPosition,
                                               OneByte.val),
                       !.InputPosition = @ + 1,
                       !.pc = "loop"]

\* lines 49-68: copy one literal byte
Literal(Buf, s) ==
    LET OneByte == Index(Buf, s.InputPosition)
    IN  IF ~OneByte.ok
        THEN Break(s)
        ELSE IF ~is_valid_write_request(s.OutputPosition)
        THEN Break(s)
        ELSE IF ~seek(s.OutputPosition).ok
        THEN Raise(s, seek(s.OutputPosition).val)
        ELSE [s EXCEPT !.OutputObject = write(@, s.OutputPosition,
                                              OneByte.val),
                       !.InputPosition = @ + 1,
                       !.OutputPosition = @ + 1,
                       !.pc = "loop"]

\* line 133 with 22 itself refused
LengthTooSmall_Inclusive(len) == len <= 15 + 7

\* line 133
LengthTooSmall(len) == len < 15 + 7

\* lines 125-137: the escape byte B2 is in MatchLength
EscapeWord(Buf, s, B2) ==
    LET bytes == Slice(Buf, s.InputPosition, s.InputPosition + 2)
        L == unpackH(bytes)
    IN  IF B2 # 255
        THEN [s EXCEPT !.MatchLength = B2]
        ELSE IF Len(bytes) # 2
        THEN Break([s EXCEPT !.MatchLength = bytes])
        ELSE IF ~L.ok
        THEN Raise(s, L.val)
        ELSE IF LengthTooSmall(L.val)
        THEN Break([s EXCEPT !.MatchLength = L.val, !.InputPosition = @ + 2])
        ELSE [s EXCEPT !.MatchLength = L.val - (15 + 7),
                       !.InputPosition = @ + 2]

\* lines 114-139: the nibble is in MatchLength
EscapeByte(Buf, s) ==
    LET B2 == Index(Buf, s.InputPosition)
        t == EscapeWord(Buf, [s EXCEPT !.InputPosition = @ + 1], B2.val)
    IN  IF s.MatchLength # 15
        THEN s
        ELSE IF ~B2.ok
        THEN Break(s)
        ELSE IF t.pc # s.pc
        THEN t
        ELSE [t EXCEPT !.MatchLength = @ + 15]

\* lines 88-100 with lines 99 and 100 the other way round: the position
\* cached is that of the byte after the length-extension byte
NibbleRead_CacheNext(Buf, s) ==
    LET B == Index(Buf, s.InputPosition)
    IN  IF ~B.ok
        THEN Break(s)
        ELSE [s EXCEPT !.MatchLength = B.val % 16,
                       !.LastLengthHalfByte = s.InputPosition + 1,
                       !.InputPosition = @ + 1]

\* lines 88-100: no nibble is pending, read a length-extension byte
NibbleRead(Buf, s) ==
    LET B == Index(Buf, s.InputPosition)
    IN  IF ~B.ok
        THEN Break(s)
        ELSE [s EXCEPT !.MatchLength = B.val % 16,
                       !.LastLengthHalfByte = s.InputPosition,
                       !.InputPosition = @ + 1]

\* lines 101-112 taking the low half a second time
NibbleReuse_LowNibble(Buf, s) ==
    LET B == Index(Buf, s.LastLengthHalfByte)
    IN  IF ~B.ok
        THEN Break(s)
        ELSE [s EXCEPT !.MatchLength = B.val % 16,
                       !.LastLengthHalfByte = 0]

\* lines 101-112: a nibble is pending, take the cached byte's other half
NibbleReuse(Buf, s) ==
    LET B == Index(Buf, s.LastLengthHalfByte)
    IN  IF ~B.ok
        THEN Break(s)
        ELSE [s EXCEPT !.MatchLength = B.val \div 16,
                       !.LastLengthHalfByte = 0]

\* lines 87-141: the 3-bit length field is 7
LengthExtension(Buf, s) ==
    LET t == IF s.LastLengthHalfByte = 0
             THEN NibbleRead(Buf, s) ELSE NibbleReuse(Buf, s)
        u == EscapeByte(Buf, t)
    IN  IF t.pc # s.pc
        THEN t
        ELSE IF u.pc # s.pc
        THEN u
        ELSE [u EXCEPT !.MatchLength = @ + 7]

\* line 86 without the "+ 1": offsets from 0
DecodedOffset_FromZero(W) == W \div 8

\* line 86
DecodedOffset(W) == (W \div 8) + 1

\* lines 70-145 with the nibble cache emptied by a match of length field
\* 0..6
Match_ResetsCache(Buf, s) ==
    LET bytes == Slice(Buf, s.InputPosition, s.InputPosition + 2)
        W == unpackH(bytes)
        t == [s EXCEPT !.InputPosition = @ + 2,
                       !.MatchLength = W.val % 8,
                       !.MatchOffset = DecodedOffset(W.val),
                       !.LastLengthHalfByte = IF W.val % 8 = 7 THEN @ ELSE 0]
        u == IF t.MatchLength = 7 THEN LengthExtension(Buf, t) ELSE t
    IN  IF s.InputPosition = Len(Buf)
        THEN [s EXCEPT !.OutputBuffer = s.OutputObject, !.pc = "done"]
        ELSE IF Len(bytes) # 2
        THEN Break(s)
        ELSE IF u.pc # s.pc
        THEN u
        ELSE [u EXCEPT !.MatchLength = @ + 3, !.i = 0, !.pc = "copy"]

\* lines 70-145: return at the end of the input, else decode a match word
Match(Buf, s) ==
    LET bytes == Slice(Buf, s.InputPosition, s.InputPosition + 2)
        W == unpackH(bytes)
        t == [s EXCEPT !.InputPosition = @ + 2,
                       !.MatchLength = W.val % 8,
                       !.MatchOffset = DecodedOffset(W.val)]
        u == IF t.MatchLength = 7 THEN LengthExtension(Buf, t) ELSE t
    IN  IF s.InputPosition = Len(Buf)
        THEN [s EXCEPT !.OutputBuffer = s.OutputObject, !.pc = "done"]
        ELSE IF Len(bytes) # 2
        THEN Break(s)
        ELSE IF ~W.ok
        THEN Raise(s, W.val)
        ELSE IF u.pc # s.pc
        THEN u
        ELSE [u EXCEPT !.MatchLength = @ + 3, !.i = 0, !.pc = "copy"]

\* line 147 letting the byte before the start through
SourceBeforeStart_OffByOne(s) == s.OutputPosition - s.MatchOffset < 0 - 1

\* line 147
SourceBeforeStart(s) == s.OutputPosition - s.MatchOffset < 0

\* lines 146-171 reading every byte from where the match's first byte is read
CopyByte_SourceFixed(s) ==
    LET src == s.OutputPosition - s.i - s.MatchOffset
        OneByte == read1(s.OutputObject, src)
    IN  IF src < 0 \/ Len(OneByte) # 1
        THEN Break(s)
        ELSE [s EXCEPT !.OutputObject = write(@, s.OutputPosition,
                                              OneByte[1]),
                       !.OutputPosition = @ + 1,
                       !.i = IF s.i + 1 < s.MatchLength THEN @ + 1 ELSE @,
                       !.pc = IF s.i + 1 < s.MatchLength
                              THEN "copy" ELSE "loop"]

\* lines 146-171: one pass of the copy loop; the loop ends after the pass
\* with i = MatchLength - 1
CopyByte(s) ==
    LET src == s.OutputPosition - s.MatchOffset
        OneByte == read1(s.OutputObject, src)
    IN  IF SourceBeforeStart(s)
        THEN Break(s)
        ELSE IF ~seek(src).ok
        THEN Raise(s, seek(src).val)
        ELSE IF Len(OneByte) # 1
        THEN Break(s)
        ELSE IF ~is_valid_write_request(s.OutputPosition)
        THEN Break(s)
        ELSE [s EXCEPT !.OutputObject = write(@, s.OutputPosition,
                                              OneByte[1]),
                       !.OutputPosition = @ + 1,
                       !.i = IF s.i + 1 < s.MatchLength THEN @ + 1 ELSE @,
                       !.pc = IF s.i + 1 < s.MatchLength
                              THEN "copy" ELSE "loop"]

\* lines 173-177
ReturnBogus(s) == [s EXCEPT !.OutputBuffer = s.OutputObject, !.pc = "done"]

\* one statement group of the function, by the place the decoder stands at
Step(Buf, s) ==
    CASE s.pc = "loop" -> LoopTop(Buf, s)
      [] s.pc = "literal" -> Literal(Buf, s)
      [] s.pc = "match" -> Match(Buf, s)
      [] s.pc = "copy" -> CopyByte(s)
      [] s.pc = "break" -> ReturnBogus(s)
      [] OTHER -> s

\* n steps from s, stopping at a return or an exception
RECURSIVE Steps(_, _, _)
Steps(Buf, s, n) ==
    IF s.pc \in {"done", "raised"} \/ n = 0 THEN s
    ELSE IF n = 1 THEN Step(Buf, s)
    ELSE Steps(Buf, Steps(Buf, s, n \div 2), n - (n \div 2))

\* More steps than a call takes: a pass of the while loop takes two steps
\* and at most 65538 copy passes and consumes a byte, and the longest match
\* costs 5 bytes or more.
StepLimit(Buf) == (Len(Buf) + 2) * 16384 + 8

\* lines 26-32 with the nibble cache kept outside the function: a call
\* finds it as the call before it in the same process left it
Enter_KeepNibble(prev) ==
    [DecoderInit EXCEPT !.LastLengthHalfByte = prev.LastLengthHalfByte]

\* lines 20-32: the locals a call starts with, in a process whose call
\* before it ended with the locals prev
Enter(prev) == DecoderInit

\* lines 20-177: the locals a call ends with
Call(Buf, prev) == Steps(Buf, Enter(prev), StepLimit(Buf))

\* what a call hands back: its return value or its exception
Outcome(s) ==
    [returned |-> s.pc = "done", value |-> s.OutputBuffer, exc |-> s.exc]

\* lines 20-177: the call as a whole, in a process that made none before
LZ77DecompressBuffer(Buf) == Outcome(Call(Buf, DecoderInit))

(***************************************************************************)
(* ScanBuffer and ScanFile, lines 179-230, and the pool of line 252.       *)
(***************************************************************************)
\* line 13
PARALLEL_TASKS == 4

\* line 15
PAGE_SIZE == 4096

\* line 16
COMPRESSED_DATA_CHUNK_SIZE == 16

\* line 18
DECOMPRESSED_DATA_SIZE_MIN == 1024

\* line 197: chunksize = 8
chunksize == 8

\* line 212 reads 32 pages at a time; the model reads this many
ReadChunkPages == 1

\* line 212
read_chunk_size == ReadChunkPages * PAGE_SIZE

Workers == 1..PARALLEL_TASKS

\* b'\x00' * n
NullBytes(n) == [k \in 1..n |-> 0]

\* line 184
null_bytes_12 == NullBytes(12)

\* data.startswith(prefix)
startswith(data, prefix) ==
    Len(data) >= Len(prefix) /\ SubSeq(data, 1, Len(prefix)) = prefix

\* line 189 as "while pos + PAGE_SIZE <= len(Buffer)": full windows only
WindowPositions_FullOnly(Buf) ==
    [k \in 1..(IF Len(Buf) < PAGE_SIZE THEN 0
               ELSE ((Len(Buf) - PAGE_SIZE) \div COMPRESSED_DATA_CHUNK_SIZE) + 1) |->
        (k - 1) * COMPRESSED_DATA_CHUNK_SIZE]

\* lines 188-189, 195: the values pos takes in the loop, in order
WindowPositions(Buf) ==
    [k \in 1..((Len(Buf) + COMPRESSED_DATA_CHUNK_SIZE - 1)
                  \div COMPRESSED_DATA_CHUNK_SIZE) |->
        (k - 1) * COMPRESSED_DATA_CHUNK_SIZE]

\* line 190
Window(Buf, pos) == Slice(Buf, pos, pos + PAGE_SIZE)

\* line 192 with a prefix of 16 null bytes
IsCandidate_16(compressed_data) == ~startswith(compressed_data, NullBytes(16))

\* line 192: the window is passed on to the decoder
IsCandidate(compressed_data) == ~startswith(compressed_data, null_bytes_12)

\* lines 186-195: the list built by the loop
CompressedDataToProcess(Buf) ==
    LET positions == WindowPositions(Buf)
    IN  SelectSeq([k \in 1..Len(positions) |-> Window(Buf, positions[k])],
                  IsCandidate)

\* line 197 with the items after the last full batch left out
Batches_DropShort(list) ==
    [c \in 1..(Len(list) \div chunksize) |->
        SubSeq(list, chunksize * (c - 1) + 1, chunksize * c)]

\* line 197, Pool._get_tasks: the list cut into batches of chunksize items,
\* the last one shorter
Batches(list) ==
    [c \in 1..((Len(list) + chunksize - 1) \div chunksize) |->
        SubSeq(list, chunksize * (c - 1) + 1, Min(chunksize * c, Len(list)))]

\* line 197, mapstar in a worker: the locals call k of a batch ends with,
\* the calls made one after the other in the worker's process
RECURSIVE CallOfBatch(_, _)
CallOfBatch(batch, k) ==
    Call(batch[k], IF k = 1 THEN DecoderInit ELSE CallOfBatch(batch, k - 1))

\* line 197, mapstar in a worker: the function applied to a batch in order
DecodeBatch(batch) ==
    [k \in 1..Len(batch) |-> Outcome(CallOfBatch(batch, k))]

\* lines 198-207 with ">" for ">=" on line 198
PostProcess_StrictMin(decompressed_data) ==
    IF Len(decompressed_data) > DECOMPRESSED_DATA_SIZE_MIN
    THEN [emit |-> TRUE,
          page |-> Slice(decompressed_data, 0, PAGE_SIZE)
                       \o NullBytes(PAGE_SIZE - Len(decompressed_data))]
    ELSE [emit |-> FALSE, page |-> <<>>]

\* lines 198-207: whether the result is yielded, and the page yielded
PostProcess(decompressed_data) ==
    IF Len(decompressed_data) >= DECOMPRESSED_DATA_SIZE_MIN
    THEN IF Len(decompressed_data) > PAGE_SIZE
         THEN [emit |-> TRUE, page |-> Slice(decompressed_data, 0, PAGE_SIZE)]
         ELSE IF Len(decompressed_data) < PAGE_SIZE
         THEN [emit |-> TRUE,
               page |-> decompressed_data
                            \o NullBytes(PAGE_SIZE - Len(decompressed_data))]
         ELSE [emit |-> TRUE, page |-> decompressed_data]
    ELSE [emit |-> FALSE, page |-> <<>>]

\* line 221 without the seek of line 220: the read starts at the start
ReadAt_NoSeek(contents, pos, size) == Slice(contents, 0, size)

\* line 221: file_obj.seek(pos); file_obj.read(size)
ReadAt(contents, pos, size) == Slice(contents, pos, pos + size)

(***************************************************************************)
(* The buffers the decoder is run on.                                      *)
(***************************************************************************)
\* the longest buffer of arbitrary bytes tried
MaxLen == 5

\* the most literal bytes that follow an all-zero flag word
MaxLiterals == 36

Bytes == 0..255

RECURSIVE SeqsUpTo(_, _)
SeqsUpTo(S, n) ==
    IF n = 0 THEN {<<>>}
    ELSE LET shorter == SeqsUpTo(S, n - 1)
         IN  shorter \cup {Append(q, x) : q \in {r \in shorter : Len(r) = n - 1},
                                          x \in S}

\* a flag word (four bytes as stored) whose flags, in the order they are
\* taken, are kinds (0 a literal, 1 a match) and then pad
FlagWord(kinds, pad) ==
    LET bit(n) == IF 32 - n <= Len(kinds) THEN kinds[32 - n] ELSE pad
    IN  [k \in 1..4 |->
            bit(8 * k - 8) + 2 * bit(8 * k - 7) + 4 * bit(8 * k - 6)
            + 8 * bit(8 * k - 5) + 16 * bit(8 * k - 4) + 32 * bit(8 * k - 3)
            + 64 * bit(8 * k - 2) + 128 * bit(8 * k - 1)]

\* n bytes a, a + d, a + 2d, ... (mod 256)
Ramp(a, d, n) == [k \in 1..n |-> (a + d * (k - 1)) % 256]

ArbitraryInputs == SeqsUpTo({0, 127, 255}, MaxLen)

LiteralInputs ==
    {FlagWord(<<>>, 0) \o Ramp(a, d, n) :
        a \in {1, 250}, d \in {0, 3}, n \in 0..MaxLiterals}

\* the most literal bytes in front of the matches of a built buffer
MaxPrefix == 2

\* a match token: the 16-bit word W, low byte first, and the bytes after it
MatchBytes(W, chain) == <<W % 256, W \div 256>> \o chain

\* match words: length field 0, 6 or 7 with offset 1, 2 or 8192
MatchWords == {8 * oc + f : oc \in {0, 1, 8191}, f \in {0, 6, 7}}

\* bytes after a match word: nothing, a length-extension byte, an escape
\* byte, a 16-bit length (22 is the least one accepted)
Chains ==
    {<<>>, <<0>>, <<46>>, <<241>>, <<15, 0>>, <<15, 254>>, <<255, 254>>,
     <<255, 255, 22, 0>>, <<15, 255, 21, 0>>, <<31, 255, 22, 1>>,
     <<254>>, <<255, 23, 0>>}

SecondMatches ==
    {<<>>} \cup {MatchBytes(W, c) : W \in {0, 7, 15},
                                   c \in {<<>>, <<33>>, <<254>>, <<255, 23, 0>>}}

\* k literals, one or two matches, then set flags only
MatchInputs ==
    {FlagWord([n \in 1..k |-> 0], 1) \o Ramp(65, 1, k) \o MatchBytes(W, c) \o m :
        k \in 0..MaxPrefix, W \in MatchWords, c \in Chains, m \in SecondMatches}

\* literal, match, literal, match: the matches have length field 7
MixedInputs ==
    {FlagWord(<<0, 1, 0, 1, 0>>, 1)
        \o <<97>> \o MatchBytes(7, <<e>>) \o <<98>> \o MatchBytes(W, c) \o <<99>> :
        e \in {33, 240, 255}, W \in {7, 15, 6}, c \in {<<>>, <<1>>, <<255, 22, 0>>}}

\* a match as the first token, for every low byte of the match word
WideInputs ==
    {FlagWord(<<1>>, 1) \o <<lo, hi, 33>> : lo \in Bytes, hi \in {0, 1, 127, 255}}

\* a literal, a match of length field 7, one of field 2, a literal, and
\* two more matches of field 7
AlternatingInputs ==
    {FlagWord(<<0, 1, 1, 0, 1, 1>>, 1)
        \o <<97>> \o MatchBytes(7, c) \o MatchBytes(2, <<>>) \o <<98>>
        \o MatchBytes(7, <<>>) \o MatchBytes(15, <<d>>) :
        c \in {<<33>>, <<47, 5>>, <<47, 255, 30, 0>>}, d \in {1, 52}}

Prefixes(S) == UNION {{SubSeq(b, 1, n) : n \in 0..Len(b)} : b \in S}

\* buffers cut short at every length
TruncatedInputs ==
    Prefixes({FlagWord(<<0>>, 1) \o <<65>> \o MatchBytes(7, c) \o MatchBytes(7, d) :
                 c \in {<<33>>, <<255, 255, 22, 0>>},
                 d \in {<<>>, <<254>>, <<255, 23, 0>>}})

Inputs ==
    ArbitraryInputs \cup LiteralInputs \cup MatchInputs \cup MixedInputs
        \cup WideInputs \cup TruncatedInputs \cup AlternatingInputs

(***************************************************************************)
(* The files ScanFile is run on.  A file is its size and its 16-byte       *)
(* blocks that are not all zero, by block number.                          *)
(***************************************************************************)
\* a 16-byte chunk that decodes to n bytes b (26 <= n): a literal b, a match
\* of offset 1 and length n - 1 through the 16-bit length, then a match word
\* whose offset is out of range
PageBlock(b, n) ==
    FlagWord(<<0, 1>>, 1) \o <<b>>
        \o MatchBytes(7, <<15, 255, (n - 4) % 256, (n - 4) \div 256>>)
        \o <<255, 255, 255, 255, 255>>

\* a block the decoder gives up on at once: a match with nothing to copy
JunkBlock == [k \in 1..16 |-> 170]

\* twelve zero bytes, then data
NearZeroBlock == NullBytes(12) \o <<1, 2, 3, 4>>

\* eleven zero bytes, then data
ElevenZeroBlock == NullBytes(11) \o <<1, 0, 0, 0, 0>>

\* a block whose decoding ends with a nibble pending: a literal b, a match
\* of offset 1 whose length byte 33 leaves its high half, then literals
PendingBlock(b) ==
    FlagWord(<<0, 1>>, 0) \o <<b>> \o MatchBytes(7, <<33>>)
        \o <<1, 2, 3, 4, 5, 6, 7, 8>>

\* blocks a buffer of read_chunk_size bytes holds
BufferBlocks == read_chunk_size \div 16

\* the blocks bs put at block numbers first, first + 1, ...
BlocksAt(first, bs) == [n \in first..(first + Len(bs) - 1) |-> bs[n - first + 1]]

Files ==
    <<[size |-> 0, blocks |-> <<>>],
      [size |-> 5, blocks |-> <<>>],
      [size |-> 40, blocks |-> BlocksAt(0, <<PageBlock(65, 4097)>>)],
      [size |-> 48,
       blocks |-> BlocksAt(0, <<PageBlock(66, 4096), PageBlock(67, 2000),
                                PageBlock(68, 1023)>>)],
      [size |-> read_chunk_size + 40,
       blocks |-> BlocksAt(BufferBlocks - 10,
                    <<PageBlock(69, 1024), JunkBlock, PageBlock(70, 1025),
                      JunkBlock, NearZeroBlock, JunkBlock, JunkBlock,
                      JunkBlock, JunkBlock, PageBlock(71, 1026),
                      PageBlock(72, 1024), ElevenZeroBlock, JunkBlock>>)],
      [size |-> 2 * read_chunk_size,
       blocks |-> BlocksAt(0, <<PageBlock(73, 1024)>>)
                  @@ BlocksAt(BufferBlocks - 2,
                        <<PageBlock(74, 1023), PageBlock(75, 1025)>>)
                  @@ BlocksAt(2 * BufferBlocks - 1, <<PageBlock(76, 1024)>>)],
      [size |-> read_chunk_size,
       blocks |-> BlocksAt(3, <<NearZeroBlock>>)],
      [size |-> read_chunk_size + 16 * 17 + 3,
       blocks |-> BlocksAt(BufferBlocks,
                    <<PageBlock(77, 1024), JunkBlock, JunkBlock, JunkBlock,
                      JunkBlock, JunkBlock, JunkBlock, JunkBlock,
                      PageBlock(78, 1024), JunkBlock, JunkBlock, JunkBlock,
                      JunkBlock, JunkBlock, JunkBlock, JunkBlock,
                      PageBlock(79, 1024), JunkBlock>>)],
      [size |-> 32,
       blocks |-> BlocksAt(0, <<PendingBlock(80), PageBlock(81, 1024)>>)]>>

\* the bytes of file f
FileContents(f) ==
    [k \in 1..Files[f].size |->
        IF ((k - 1) \div 16) \in DOMAIN Files[f].blocks
        THEN Files[f].blocks[(k - 1) \div 16][((k - 1) % 16) + 1]
        ELSE 0]

(***************************************************************************)
(* The decoder, one statement group per step.                              *)
(***************************************************************************)
State ==
    [BufferedFlags |-> BufferedFlags, BufferedFlagCount |-> BufferedFlagCount,
     InputPosition |-> InputPosition, OutputPosition |-> OutputPosition,
     LastLengthHalfByte |-> LastLengthHalfByte, OutputObject |-> OutputObject,
     MatchLength |-> MatchLength, MatchOffset |-> MatchOffset, i |-> i,
     pc |-> pc, OutputBuffer |-> OutputBuffer, exc |-> exc]

Load(s) ==
    /\ BufferedFlags' = s.BufferedFlags
    /\ BufferedFlagCount' = s.BufferedFlagCount
    /\ InputPosition' = s.InputPosition
    /\ OutputPosition' = s.OutputPosition
    /\ LastLengthHalfByte' = s.LastLengthHalfByte
    /\ OutputObject' = s.OutputObject
    /\ MatchLength' = s.MatchLength
    /\ MatchOffset' = s.MatchOffset
    /\ i' = s.i
    /\ pc' = s.pc
    /\ OutputBuffer' = s.OutputBuffer
    /\ exc' = s.exc

\* the decoder before a call
DecoderIdle ==
    /\ BufferedFlags = DecoderInit.BufferedFlags
    /\ BufferedFlagCount = DecoderInit.BufferedFlagCount
    /\ InputPosition = DecoderInit.InputPosition
    /\ OutputPosition = DecoderInit.OutputPosition
    /\ LastLengthHalfByte = DecoderInit.LastLengthHalfByte
    /\ OutputObject = DecoderInit.OutputObject
    /\ MatchLength = DecoderInit.MatchLength
    /\ MatchOffset = DecoderInit.MatchOffset
    /\ i = DecoderInit.i
    /\ pc = DecoderInit.pc
    /\ OutputBuffer = DecoderInit.OutputBuffer
    /\ exc = DecoderInit.exc

\* the main process before ScanFile is called, the pool just created
PipelineIdle ==
    /\ file_size = 0
    /\ file_pos = 0
    /\ buf = <<>>
    /\ compressed_data_to_process = <<>>
    /\ taskqueue = <<>>
    /\ worker = [w \in Workers |-> <<>>]
    /\ items = <<>>
    /\ current = <<>>
    /\ outstanding = 0
    /\ stdout = <<>>
    /\ spc = "start"

\* a call of LZ77DecompressBuffer on one of Inputs
Init ==
    /\ Buffer \in Inputs
    /\ write_ceiling = ProgramCeiling
    /\ DecoderIdle /\ FilePath = 0 /\ PipelineIdle

\* Each action computes its statement group once and loads the result.
DoLoopTop ==
    /\ pc = "loop"
    /\ \E t \in {LoopTop(Buffer, State)} : Load(t)
    /\ UNCHANGED <<Buffer, write_ceiling, pvars>>

DoLiteral ==
    /\ pc = "literal"
    /\ \E t \in {Literal(Buffer, State)} : Load(t)
    /\ UNCHANGED <<Buffer, write_ceiling, pvars>>

DoMatch ==
    /\ pc = "match"
    /\ \E t \in {Match(Buffer, State)} : Load(t)
    /\ UNCHANGED <<Buffer, write_ceiling, pvars>>

DoCopyByte ==
    /\ pc = "copy"
    /\ \E t \in {CopyByte(State)} : Load(t)
    /\ UNCHANGED <<Buffer, write_ceiling, pvars>>

DoReturnBogus ==
    /\ pc = "break"
    /\ \E t \in {ReturnBogus(State)} : Load(t)
    /\ UNCHANGED <<Buffer, write_ceiling, pvars>>

Next == DoLoopTop \/ DoLiteral \/ DoMatch \/ DoCopyByte \/ DoReturnBogus

Spec == Init /\ [][Next]_vars

(***************************************************************************)
(* The scan of a file: the main process, and the pool's worker processes.  *)
(***************************************************************************)
\* lines 214-218
OpenFile ==
    /\ spc = "start"
    /\ file_size' = Len(FileContents(FilePath))
    /\ file_pos' = 0
    /\ spc' = "while"
    /\ UNCHANGED <<Buffer, write_ceiling, dvars>>
    /\ UNCHANGED <<FilePath, buf, compressed_data_to_process, taskqueue,
                   worker, items, current, outstanding, stdout>>

\* lines 219-221
ReadBuffer ==
    /\ spc = "while"
    /\ file_pos < file_size
    /\ buf' = ReadAt(FileContents(FilePath), file_pos, read_chunk_size)
    /\ spc' = "scan"
    /\ UNCHANGED <<Buffer, write_ceiling, dvars>>
    /\ UNCHANGED <<FilePath, file_size, file_pos, compressed_data_to_process,
                   taskqueue, worker, items, current, outstanding, stdout>>

\* line 219, the loop ends; lines 258-259
EndOfFile ==
    /\ spc = "while"
    /\ file_pos >= file_size
    /\ spc' = "exit"
    /\ UNCHANGED <<Buffer, write_ceiling, dvars>>
    /\ UNCHANGED <<FilePath, file_size, file_pos, buf,
                   compressed_data_to_process, taskqueue, worker, items,
                   current, outstanding, stdout>>

\* lines 184-197: the windows of buf, handed to the pool in batches
Scan ==
    /\ spc = "scan"
    /\ compressed_data_to_process' = CompressedDataToProcess(buf)
    /\ taskqueue' = taskqueue \o Batches(compressed_data_to_process')
    /\ outstanding' = Len(Batches(compressed_data_to_process'))
    /\ spc' = "collect"
    /\ UNCHANGED <<Buffer, write_ceiling, dvars>>
    /\ UNCHANGED <<FilePath, file_size, file_pos, buf, worker, items, current,
                   stdout>>

\* a worker process takes the oldest batch
Take(w) ==
    /\ worker[w] = <<>>
    /\ taskqueue # <<>>
    /\ worker' = [worker EXCEPT ![w] = Head(taskqueue)]
    /\ taskqueue' = Tail(taskqueue)
    /\ UNCHANGED <<Buffer, write_ceiling, dvars>>
    /\ UNCHANGED <<FilePath, file_size, file_pos, buf,
                   compressed_data_to_process, items, current, outstanding,
                   stdout, spc>>

\* a worker process has decoded its batch and sends the results
Finish(w) ==
    /\ worker[w] # <<>>
    /\ items' = Append(items, DecodeBatch(worker[w]))
    /\ worker' = [worker EXCEPT ![w] = <<>>]
    /\ UNCHANGED <<Buffer, write_ceiling, dvars>>
    /\ UNCHANGED <<FilePath, file_size, file_pos, buf,
                   compressed_data_to_process, taskqueue, current,
                   outstanding, stdout, spc>>

\* lines 197-207, 224, 256: the next result of the iterator, the next one
\* of the batch being iterated or the first one of the next finished batch
Collect ==
    /\ spc = "collect"
    /\ current # <<>> \/ items # <<>>
    /\ LET batch == IF current # <<>> THEN current ELSE Head(items)
           result == Head(batch)
           page == PostProcess(result.value)
       IN  /\ current' = Tail(batch)
           /\ items' = IF current # <<>> THEN items ELSE Tail(items)
           /\ outstanding' = IF current # <<>> THEN outstanding
                             ELSE outstanding - 1
           /\ IF ~result.returned
              THEN spc' = "raised" /\ stdout' = stdout
              ELSE /\ spc' = spc
                   /\ stdout' = IF page.emit THEN Append(stdout, page.page)
                                ELSE stdout
    /\ UNCHANGED <<Buffer, write_ceiling, dvars>>
    /\ UNCHANGED <<FilePath, file_size, file_pos, buf,
                   compressed_data_to_process, taskqueue, worker>>

\* lines 226-230 reached as soon as no result is waiting
EndBatch_NoDrain ==
    /\ spc = "collect"
    /\ current = <<>>
    /\ items = <<>>
    /\ IF Len(buf) # read_chunk_size
       THEN spc' = "exit" /\ file_pos' = file_pos
       ELSE spc' = "while" /\ file_pos' = file_pos + read_chunk_size
    /\ UNCHANGED <<Buffer, write_ceiling, dvars>>
    /\ UNCHANGED <<FilePath, file_size, buf, compressed_data_to_process,
                   taskqueue, worker, items, current, outstanding, stdout>>

\* line 197, the iterator is exhausted; lines 226-230
EndBatch ==
    /\ spc = "collect"
    /\ current = <<>>
    /\ outstanding = 0
    /\ IF Len(buf) # read_chunk_size
       THEN spc' = "exit" /\ file_pos' = file_pos
       ELSE spc' = "while" /\ file_pos' = file_pos + read_chunk_size
    /\ UNCHANGED <<Buffer, write_ceiling, dvars>>
    /\ UNCHANGED <<FilePath, file_size, buf, compressed_data_to_process,
                   taskqueue, worker, items, current, outstanding, stdout>>

NextScan ==
    \/ OpenFile
    \/ ReadBuffer
    \/ EndOfFile
    \/ Scan
    \/ \E w \in Workers : Take(w)
    \/ \E w \in Workers : Finish(w)
    \/ Collect
    \/ EndBatch

\* a run of the program on one of Files
InitScan ==
    /\ Buffer = <<>>
    /\ write_ceiling = ProgramCeiling
    /\ DecoderIdle /\ FilePath \in DOMAIN Files /\ PipelineIdle

SpecScan == InitScan /\ [][NextScan]_vars

\* the buffers the calls of FairSpec are made on: those of Inputs, the
\* built matches with the longest literal prefix only
FairInputs ==
    ArbitraryInputs \cup LiteralInputs \cup MixedInputs \cup WideInputs
        \cup TruncatedInputs \cup AlternatingInputs
        \cup {b \in MatchInputs : \A k \in 1..MaxPrefix : b[4 + k] = 64 + k}

InitFair ==
    /\ Buffer \in FairInputs
    /\ write_ceiling = ProgramCeiling
    /\ DecoderIdle /\ FilePath = 0 /\ PipelineIdle

\* the ceiling of the calls of SpecCeiling, in bytes, in place of 2^31
CeilingBytes == 6

\* a call of LZ77DecompressBuffer on one of Inputs under a ceiling of
\* CeilingBytes bytes
InitCeiling ==
    /\ Buffer \in Inputs
    /\ write_ceiling = <<1, CeilingBytes>>
    /\ DecoderIdle /\ FilePath = 0 /\ PipelineIdle

SpecCeiling == InitCeiling /\ [][Next]_vars

\* a call runs on its own thread of a worker process: a decoder step is
\* always taken when one can be
FairSpec == InitFair /\ [][Next]_vars /\ WF_vars(Next)

(***************************************************************************)
(* Properties of the decoder, checked under Spec.                          *)
(***************************************************************************)
IsBytes(q) == \A k \in 1..Len(q) : q[k] \in Bytes

\* C1: whatever the buffer, the decoder never leaves by an exception: it is
\* at one of its statement groups, stopped ("break") or returned; at a stop
\* and at the return the output holds every byte written so far; the step
\* after a stop is the return of that output; and the value returned is the
\* accumulated output, a sequence of bytes.
C1_NeverFails ==
    /\ pc \in {"loop", "literal", "match", "copy", "break", "done"}
    /\ exc = ""
    /\ Len(OutputObject) = OutputPosition
    /\ (pc = "break" =>
            /\ Step(Buffer, State).pc = "done"
            /\ Step(Buffer, State).OutputBuffer = OutputObject)
    /\ (pc = "done" => OutputBuffer = OutputObject /\ IsBytes(OutputBuffer))

\* C1's case: a malformed buffer was decoded in part, and the part is
\* returned with input left over
C1_Witness ==
    /\ pc = "done"
    /\ OutputBuffer # <<>>
    /\ InputPosition < Len(Buffer)

AllZeroFlagWord(data) ==
    Len(data) >= 4 /\ \A k \in 1..4 : data[k] = 0

\* C2: a buffer of an all-zero flag word and n <= 32 more bytes decodes to
\* exactly those n bytes, and the input position at the return is 4 + n
\* (36 for n = 32).
C2_LiteralRun ==
    (pc = "done" /\ AllZeroFlagWord(Buffer) /\ Len(Buffer) - 4 <= 32) =>
        /\ OutputBuffer = SubSeq(Buffer, 5, Len(Buffer))
        /\ InputPosition = Len(Buffer)
        /\ InputPosition = 4 + Len(OutputBuffer)

\* C2's case: 32 literals that are not all alike, returned from position 36
C2_Witness ==
    /\ pc = "done"
    /\ AllZeroFlagWord(Buffer)
    /\ Len(Buffer) = 36
    /\ InputPosition = 36
    /\ Len(OutputBuffer) = 32
    /\ OutputBuffer[1] # OutputBuffer[32]

\* C3: a match whose offset is greater than the output length stops the
\* decoding before any byte of it is copied (the copy loop is at its first
\* pass), with the output and the input position as they are; the stop is
\* followed by the return of that output, no further input being read.
C3_OffsetBeyondOutput ==
    /\ []((pc = "copy" /\ OutputPosition - MatchOffset < 0) =>
            i = 0 /\ Len(OutputObject) = OutputPosition)
    /\ [][(pc = "copy" /\ OutputPosition - MatchOffset < 0) =>
            /\ pc' = "break"
            /\ OutputObject' = OutputObject
            /\ InputPosition' = InputPosition]_vars
    /\ [][pc = "break" =>
            /\ pc' = "done"
            /\ OutputBuffer' = OutputObject
            /\ InputPosition' = InputPosition]_vars

\* C3's case: two literals, then a match of offset 8192: the two literals
\* are what is returned
C3_Witness ==
    /\ pc = "done"
    /\ Buffer = FlagWord(<<0, 0>>, 1) \o <<65, 66>> \o MatchBytes(8 * 8191, <<>>)
    /\ OutputBuffer = <<65, 66>>

\* byte p of the buffer being decoded, p counted from 0
ByteAt(p) == Buffer[p + 1]

\* the match word at the input position, defined when two bytes are left
WordHere == ByteAt(InputPosition) + 256 * ByteAt(InputPosition + 1)

MatchWordHere == pc = "match" /\ InputPosition + 2 <= Len(Buffer)

\* where the nibble of a match with length field 7 comes from, its value,
\* and where the escape byte after it is
NibbleFresh == LastLengthHalfByte = 0

NibbleHere ==
    IF NibbleFresh THEN ByteAt(InputPosition + 2) % 16
    ELSE ByteAt(LastLengthHalfByte) \div 16

EscapePos == IF NibbleFresh THEN InputPosition + 3 ELSE InputPosition + 2

LongLengthHere == ByteAt(EscapePos + 1) + 256 * ByteAt(EscapePos + 2)

\* the match here is decoded to length len, at the offset of its word
DecodedAs(len) ==
    /\ pc' = "copy"
    /\ MatchLength' = len
    /\ MatchOffset' = (WordHere \div 8) + 1

\* C4: the offset of a match word W is (W div 8) + 1, and its length is
\* (W mod 8) + 3 for a field 0..6; nibble + 7 + 3 for field 7 and a nibble
\* 0..14; B2 + 15 + 7 + 3 for nibble 15 and an escape byte B2 other than
\* 255; (L - 22) + 15 + 7 + 3 for B2 = 255 and a 16-bit L >= 22; with L < 22
\* the decoding stops there and the output is as it was.
C4_MatchLengthArithmetic ==
    [][MatchWordHere =>
        IF WordHere % 8 < 7
        THEN DecodedAs((WordHere % 8) + 3)
        ELSE IF NibbleFresh /\ InputPosition + 2 >= Len(Buffer)
        THEN TRUE
        ELSE IF NibbleHere < 15
        THEN DecodedAs(NibbleHere + 7 + 3)
        ELSE IF EscapePos >= Len(Buffer)
        THEN TRUE
        ELSE IF ByteAt(EscapePos) # 255
        THEN DecodedAs(ByteAt(EscapePos) + 15 + 7 + 3)
        ELSE IF EscapePos + 3 > Len(Buffer)
        THEN TRUE
        ELSE IF LongLengthHere >= 22
        THEN DecodedAs((LongLengthHere - 22) + 15 + 7 + 3)
        ELSE /\ pc' = "break"
             /\ OutputObject' = OutputObject
             /\ OutputPosition' = OutputPosition]_vars

\* C4's case: a 16-bit length of 278 gave a match of 278 - 22 + 25 bytes,
\* which is being copied
C4_Witness ==
    /\ pc = "copy"
    /\ MatchLength = (278 - 22) + 15 + 7 + 3
    /\ MatchOffset = 1
    /\ i = 5

\* C5: a pending nibble is the byte right after an earlier match word of
\* length field 7.  A match of field 7 with none pending reads the byte
\* after its word, caches its position, and takes its low nibble (one byte
\* past the word consumed when the nibble is below 15); a match of field 7
\* with one pending takes the cached byte's high nibble, empties the cache,
\* and consumes no byte for it (when the nibble is below 15 the input stands
\* right after the match word, and after an escape byte B2 # 255 right
\* after B2).
C5_SharedExtensionByte ==
    /\ [](LastLengthHalfByte # 0 =>
            /\ LastLengthHalfByte >= 6
            /\ LastLengthHalfByte < Len(Buffer)
            /\ ByteAt(LastLengthHalfByte - 2) % 8 = 7)
    /\ [][(MatchWordHere /\ WordHere % 8 = 7 /\ NibbleFresh
              /\ InputPosition + 2 < Len(Buffer)) =>
            /\ LastLengthHalfByte' = InputPosition + 2
            /\ InputPosition' >= InputPosition + 3
            /\ (NibbleHere < 15 =>
                    /\ InputPosition' = InputPosition + 3
                    /\ MatchLength' = (ByteAt(InputPosition + 2) % 16) + 7 + 3)]_vars
    /\ [][(MatchWordHere /\ WordHere % 8 = 7 /\ ~NibbleFresh) =>
            /\ LastLengthHalfByte' = 0
            /\ (NibbleHere < 15 =>
                    /\ InputPosition' = InputPosition + 2
                    /\ MatchLength' = (ByteAt(LastLengthHalfByte) \div 16) + 7 + 3)
            /\ (NibbleHere = 15 /\ InputPosition + 2 < Len(Buffer)
                    /\ ByteAt(InputPosition + 2) # 255 =>
                    /\ InputPosition' = InputPosition + 3
                    /\ MatchLength' = ByteAt(InputPosition + 2) + 15 + 7 + 3)]_vars

\* C5's case: the second of two matches of field 7 has taken the high nibble
\* 2 of the shared byte 33 at position 7 and consumed its match word only
C5_Witness ==
    /\ pc = "copy"
    /\ i = 0
    /\ Len(Buffer) > 11
    /\ ByteAt(5) % 8 = 7
    /\ ByteAt(7) = 33
    /\ ByteAt(9) % 8 = 7
    /\ InputPosition = 11
    /\ LastLengthHalfByte = 0
    /\ MatchLength = 2 + 7 + 3

\* C10: every call returns.  The input position never decreases and never
\* passes the end of the buffer; a literal consumes one byte and a match at
\* least two; the copy loop's index rises by one per pass and stays below
\* the match length, which is at most 65538.  Every step changes pc or i.
C10_Terminates ==
    /\ <>(pc = "done")
    /\ [](InputPosition <= Len(Buffer))
    /\ [](pc = "copy" => i >= 0 /\ i < MatchLength /\ MatchLength <= 65538)
    /\ [][InputPosition' >= InputPosition]_<<pc, i, InputPosition>>
    /\ [][(pc = "literal" /\ pc' = "loop") =>
            InputPosition' = InputPosition + 1]_<<pc, i, InputPosition>>
    /\ [][(pc = "match" /\ pc' = "copy") =>
            InputPosition' >= InputPosition + 2]_<<pc, i, InputPosition>>
    /\ [][(pc = "copy" /\ pc' = "copy") =>
            i' = i + 1]_<<pc, i, InputPosition>>

\* C10's case: a call that went through literals, a match copied over 200
\* passes and a second flag-controlled step has returned at the end of input
C10_Witness ==
    /\ pc = "done"
    /\ Len(OutputBuffer) > 200
    /\ InputPosition = Len(Buffer)

\* byte q of the output written so far, q counted from 0
OutAt(q) == OutputObject[q + 1]

\* the output position at which the match being copied started
MatchStart == OutputPosition - i

\* C12: a match of offset o and length n at output position p is copied a
\* byte at a time.  A pass reads the byte o places before the write
\* position, a position that exists and lies strictly below the write
\* position, and appends it; the bytes copied so far satisfy out[p + j] =
\* out[p + j - o], the source being a byte of the same match where o <= j;
\* and when the last pass is done all n bytes do, the output ending at
\* p + n (with o = 1 they are n copies of the byte before the match).
C12_OverlappingCopy ==
    /\ [](pc = "copy" =>
            /\ MatchOffset >= 1 /\ MatchLength >= 3
            /\ \A j \in 0..(i - 1) :
                  OutAt(MatchStart + j) = OutAt(MatchStart + j - MatchOffset))
    /\ [][(pc = "copy" /\ OutputPosition - MatchOffset >= 0) =>
            /\ OutputPosition - MatchOffset < OutputPosition
            /\ OutputPosition - MatchOffset < Len(OutputObject)
            /\ OutputObject' =
                   Append(OutputObject, OutAt(OutputPosition - MatchOffset))
            /\ OutputPosition' = OutputPosition + 1]_vars
    /\ [][(pc = "copy" /\ pc' = "loop") =>
            /\ OutputPosition' = MatchStart + MatchLength
            /\ Len(OutputObject') = MatchStart + MatchLength
            /\ \A j \in 0..(MatchLength - 1) :
                  /\ OutputObject'[MatchStart + j + 1] =
                         OutputObject'[MatchStart + j - MatchOffset + 1]
                  /\ MatchOffset = 1 =>
                         OutputObject'[MatchStart + j + 1] = OutAt(MatchStart - 1)]_vars

\* C12's case: the literals 65 66 and then a match of offset 2, five bytes
\* of it copied, the last three from bytes of the match itself
C12_Witness ==
    /\ pc = "copy"
    /\ MatchOffset = 2
    /\ MatchLength > 5
    /\ i = 5
    /\ OutputObject = <<65, 66, 65, 66, 65, 66, 65>>

\* q is the start of r
IsPrefix(q, r) == Len(q) <= Len(r) /\ SubSeq(r, 1, Len(q)) = q

\* the value the call returns, from the state it is in
ReturnedFromHere == Steps(Buffer, State, StepLimit(Buffer)).OutputBuffer

\* C13: the output starts empty and only grows.  The write position never
\* decreases; a step leaves the output as it is or adds one byte at its end,
\* the write position then being the end and moving by one, and the bytes
\* written before staying as they are; the value returned is the output as
\* written; and the output between two tokens is a prefix of the value the
\* call returns.
C13_OutputGrows ==
    /\ [](InputPosition = 0 => OutputObject = <<>> /\ OutputPosition = 0)
    /\ [](pc = "done" => OutputBuffer = OutputObject)
    /\ [](pc = "loop" => IsPrefix(OutputObject, ReturnedFromHere))
    /\ [][OutputPosition' >= OutputPosition]_vars
    /\ [][\/ OutputObject' = OutputObject /\ OutputPosition' = OutputPosition
          \/ /\ OutputPosition = Len(OutputObject)
             /\ OutputPosition' = OutputPosition + 1
             /\ Len(OutputObject') = Len(OutputObject) + 1
             /\ SubSeq(OutputObject', 1, Len(OutputObject)) = OutputObject]_vars

\* C13's case: between two tokens, with bytes of literals and of a match
\* written and more to come in the value returned
C13_Witness ==
    /\ pc = "loop"
    /\ Len(OutputObject) > 10
    /\ OutputObject[1] = 97
    /\ Len(ReturnedFromHere) > Len(OutputObject) + 10

\* bit n (0 the least significant) of the little-endian 32-bit word whose
\* four bytes are b0 b1 b2 b3
BitOfWord(b0, b1, b2, b3, n) ==
    LET byte == IF n < 8 THEN b0 ELSE IF n < 16 THEN b1
                ELSE IF n < 24 THEN b2 ELSE b3
    IN  (byte \div (2 ^ (n % 8))) % 2

\* the step goes on to a literal for a flag 0 and to a match for a flag 1
GoesOnBy(flag) == pc' = IF flag = 0 THEN "literal" ELSE "match"

\* C14: the count of flags left is in 0..32.  The flag word and the count
\* change at the head of a decode step only.  With the count at 0 and four
\* bytes or more left, the four bytes at the input position become the flag
\* word, the input moves by 4 and the flag taken is bit 31 of the word read
\* low byte first, the count going to 31; with the count at 0 and fewer
\* than four bytes left the decoding stops, the output as it is, and that
\* output is returned; with the count at c > 0 nothing is read and the flag
\* taken is bit c - 1 of the word, the count going to c - 1.
C14_FlagCursor ==
    /\ [](BufferedFlagCount \in 0..32)
    /\ [][pc # "loop" =>
            UNCHANGED <<BufferedFlags, BufferedFlagCount>>]_vars
    /\ [][(pc = "loop" /\ BufferedFlagCount = 0
              /\ InputPosition + 4 <= Len(Buffer)) =>
            /\ BufferedFlags' = <<ByteAt(InputPosition), ByteAt(InputPosition + 1),
                                  ByteAt(InputPosition + 2), ByteAt(InputPosition + 3)>>
            /\ InputPosition' = InputPosition + 4
            /\ BufferedFlagCount' = 31
            /\ GoesOnBy(BitOfWord(ByteAt(InputPosition), ByteAt(InputPosition + 1),
                                  ByteAt(InputPosition + 2),
                                  ByteAt(InputPosition + 3), 31))]_vars
    /\ [][(pc = "loop" /\ BufferedFlagCount = 0
              /\ InputPosition + 4 > Len(Buffer)) =>
            /\ pc' = "break"
            /\ OutputObject' = OutputObject
            /\ InputPosition' = InputPosition
            /\ BufferedFlagCount' = 0]_vars
    /\ [][(pc = "loop" /\ BufferedFlagCount > 0) =>
            /\ BufferedFlags' = BufferedFlags
            /\ InputPosition' = InputPosition
            /\ BufferedFlagCount' = BufferedFlagCount - 1
            /\ GoesOnBy(BitOfWord(BufferedFlags[1], BufferedFlags[2],
                                  BufferedFlags[3], BufferedFlags[4],
                                  BufferedFlagCount - 1))]_vars
    /\ [][pc = "break" => pc' = "done" /\ OutputBuffer' = OutputObject]_vars

\* C14's case: the 32 flags of the first word are used up and a second word
\* was read at position 36, its bit 31 taken
C14_Witness ==
    /\ pc \in {"literal", "match"}
    /\ InputPosition = 40
    /\ BufferedFlagCount = 31
    /\ OutputPosition = 32
    /\ BufferedFlags = SubSeq(Buffer, 37, 40)

\* the ceiling in bytes, where TLC can hold it
Ceiling == write_ceiling[1] * write_ceiling[2]

\* C17: the program's ceiling is 2^10 * 2^21 = 2^31.  Under a ceiling, no
\* byte is written at a position at or above it: a step that changes the
\* output writes at a position below the ceiling; a literal step with a
\* byte to copy and a pass of the copy loop with a source to read, the
\* write position at the ceiling, stop the decoding with the output as it
\* is, the bytes of a match copied in part included; the output is then
\* returned, and neither the output nor the value returned is ever longer
\* than the ceiling.
C17_WriteCeiling ==
    /\ [](ProgramCeiling = <<2 ^ 10, 2 ^ 21>>)
    /\ [](Len(OutputObject) <= Ceiling /\ OutputPosition <= Ceiling)
    /\ [](pc = "done" => Len(OutputBuffer) <= Ceiling)
    /\ [][OutputObject' # OutputObject =>
            /\ OutputPosition < Ceiling
            /\ Len(OutputObject') = OutputPosition + 1]_vars
    /\ [][(pc = "literal" /\ InputPosition < Len(Buffer)
              /\ OutputPosition >= Ceiling) =>
            pc' = "break" /\ OutputObject' = OutputObject]_vars
    /\ [][(pc = "copy" /\ OutputPosition - MatchOffset >= 0
              /\ OutputPosition >= Ceiling) =>
            pc' = "break" /\ OutputObject' = OutputObject]_vars
    /\ [][pc = "break" => pc' = "done" /\ OutputBuffer' = OutputObject]_vars

\* C17's case: a match was stopped at the ceiling after some of its bytes
\* were copied, and the output up to the ceiling was returned
C17_Witness ==
    /\ pc = "done"
    /\ i > 0
    /\ i < MatchLength - 1
    /\ OutputPosition = Ceiling
    /\ Len(OutputBuffer) = Ceiling
    /\ InputPosition < Len(Buffer)

\* a match word of length field 7 is about to be decoded
Field7Here == MatchWordHere /\ WordHere % 8 = 7

\* C18: the cache is empty, 0, when a call starts.  A match that caches a
\* length-extension byte caches the position right after its match word,
\* which is 6 or more and below the length of the buffer, so never the 0
\* that stands for "empty"; a position in the cache is that of a byte
\* already consumed, 6 <= position < input position <= length; and a match
\* of length field 7 that finds a position in the cache reads that byte
\* without fail: it empties the cache and goes on to its escape byte or to
\* the copy, never stopping for the nibble.
C18_NibbleSentinel ==
    /\ [](InputPosition = 0 => LastLengthHalfByte = 0)
    /\ [](LastLengthHalfByte # 0 =>
            /\ 6 <= LastLengthHalfByte
            /\ LastLengthHalfByte < InputPosition
            /\ InputPosition <= Len(Buffer)
            /\ Index(Buffer, LastLengthHalfByte).ok)
    /\ [][(Field7Here /\ NibbleFresh /\ InputPosition + 2 < Len(Buffer)) =>
            /\ LastLengthHalfByte' = InputPosition + 2
            /\ LastLengthHalfByte' >= 6
            /\ LastLengthHalfByte' < Len(Buffer)
            /\ LastLengthHalfByte' # 0]_vars
    /\ [][(Field7Here /\ ~NibbleFresh) =>
            /\ LastLengthHalfByte' = 0
            /\ (ByteAt(LastLengthHalfByte) \div 16 < 15 => pc' = "copy")
            /\ (pc' = "break" =>
                    /\ ByteAt(LastLengthHalfByte) \div 16 = 15
                    /\ \/ InputPosition' = Len(Buffer)
                       \/ InputPosition' + 2 > Len(Buffer)
                       \/ MatchLength' < 22)]_vars
    /\ [][LastLengthHalfByte' # LastLengthHalfByte => Field7Here]_vars

\* C18's case: the first token of a buffer is a match of length field 7; its
\* length-extension byte is at position 6, the least there is, and cached
C18_Witness ==
    /\ pc = "copy"
    /\ LastLengthHalfByte = 6
    /\ InputPosition = 7
    /\ ByteAt(4) % 8 = 7
    /\ MatchLength = (ByteAt(6) % 16) + 7 + 3

\* C19: the nibble cache is left as it is by every step that is not the
\* decoding of a match word of length field 7: the head of a decode step
\* with or without a refill, a literal, a match of field 0..6, a pass of the
\* copy loop, a stop and the return.  A match of field 7 that finds the
\* cache empty and a byte to read caches that byte's position, whatever its
\* escape bytes are and whether or not it stops on them; one that finds a
\* position cached empties the cache.  So the matches of field 7 read and
\* reuse in turn, whatever lies between them.
C19_NibbleFrame ==
    /\ [][pc # "match" => LastLengthHalfByte' = LastLengthHalfByte]_vars
    /\ [][(pc = "match" /\ ~Field7Here) =>
            LastLengthHalfByte' = LastLengthHalfByte]_vars
    /\ [][(MatchWordHere /\ WordHere % 8 < 7) =>
            pc' = "copy" /\ LastLengthHalfByte' = LastLengthHalfByte]_vars
    /\ [][(Field7Here /\ LastLengthHalfByte = 0
              /\ InputPosition + 2 < Len(Buffer)) =>
            /\ LastLengthHalfByte' = InputPosition + 2
            /\ LastLengthHalfByte' # 0]_vars
    /\ [][(Field7Here /\ LastLengthHalfByte # 0) =>
            /\ LastLengthHalfByte' = 0
            /\ pc' = "copy" =>
                   MatchLength' >= (ByteAt(LastLengthHalfByte) \div 16) + 7 + 3]_vars

\* C19's case: a match of field 7 cached the byte at position 7; a match of
\* field 2 and a literal were decoded with the cache as it was; the next
\* match of field 7 took the high nibble and emptied the cache; and the one
\* after it has read and cached a new byte
C19_Witness ==
    /\ Buffer \in AlternatingInputs
    /\ ByteAt(7) = 33
    /\ pc = "copy"
    /\ i = 0
    /\ InputPosition = Len(Buffer)
    /\ LastLengthHalfByte = Len(Buffer) - 1
    /\ MatchLength = (ByteAt(Len(Buffer) - 1) % 16) + 7 + 3
    /\ Len(OutputObject) = 1 + (1 + 7 + 3) + (2 + 3) + 1 + (2 + 7 + 3)

\* the position a pass of the copy loop reads
SourcePosition == OutputPosition - MatchOffset

\* the write position is below the ceiling
BelowCeiling == OutputPosition \div write_ceiling[1] < write_ceiling[2]

\* C20: the output is as long as the write position says, in every state.
\* In the copy loop the offset stays and the position read moves up by one
\* per pass; a position read that is not before the start is that of a byte
\* written, so the read gives a byte; after the first pass the position
\* read is never before the start.  The loop stops the decoding only at its
\* first pass with the source before the start, or at the ceiling: once a
\* pass has copied a byte every pass below the ceiling copies one, and the
\* loop ends with all MatchLength bytes copied.
C20_CopyInFull ==
    /\ [](Len(OutputObject) = OutputPosition)
    /\ [](pc = "copy" /\ SourcePosition >= 0 =>
            SourcePosition < Len(OutputObject))
    /\ [](pc = "copy" /\ i >= 1 => SourcePosition >= 0)
    /\ [][(pc = "copy" /\ pc' = "copy") =>
            /\ MatchOffset' = MatchOffset
            /\ MatchLength' = MatchLength
            /\ OutputPosition' - MatchOffset' = SourcePosition + 1]_vars
    /\ [][(pc = "copy" /\ pc' = "break") =>
            \/ i = 0 /\ SourcePosition < 0
            \/ ~BelowCeiling]_vars
    /\ [][(pc = "copy" /\ i >= 1 /\ BelowCeiling) =>
            /\ pc' \in {"copy", "loop"}
            /\ OutputPosition' = OutputPosition + 1]_vars
    /\ [][(pc = "copy" /\ pc' = "loop") =>
            /\ i = MatchLength - 1
            /\ OutputPosition' = (OutputPosition - i) + MatchLength]_vars

\* C20's case: a match of more than 200 bytes whose first byte was copied is
\* at its last pass, every pass before it having copied a byte
C20_Witness ==
    /\ pc = "copy"
    /\ MatchLength > 200
    /\ i = MatchLength - 1
    /\ MatchOffset = 2
    /\ OutputPosition = 2 + i
    /\ OutputObject[OutputPosition] = OutputObject[OutputPosition - 2]

(***************************************************************************)
(* Properties of the scan, checked under SpecScan.  What is expected of a  *)
(* buffer is read off its bytes.                                           *)
(***************************************************************************)
\* the window of data at offset 16 * k: up to 4096 bytes
WindowAt(data, k) ==
    [j \in 1..(Min(16 * k + 4096, Len(data)) - 16 * k) |-> data[16 * k + j]]

\* twelve bytes are there at offset 16 * k of data and all are zero
ZerosAt(data, k) ==
    16 * k + 12 <= Len(data) /\ \A j \in 1..12 : data[16 * k + j] = 0

\* w has twelve bytes or more, the first twelve all zero
TwelveZeros(w) == Len(w) >= 12 /\ \A j \in 1..12 : w[j] = 0

\* the k with 16 * k < Len(data), in order
WindowNumbers(data) == [n \in 1..((Len(data) + 15) \div 16) |-> n - 1]

\* the windows of data that do not start with twelve zero bytes, each once,
\* by offset
SubmittedWindows(data) ==
    LET ks == SelectSeq(WindowNumbers(data), LAMBDA k : ~ZerosAt(data, k))
    IN  [n \in 1..Len(ks) |-> WindowAt(data, ks[n])]

RECURSIVE Flat(_)
Flat(batches) ==
    IF batches = <<>> THEN <<>> ELSE Head(batches) \o Flat(Tail(batches))

\* the windows the pool holds: waiting, or with a worker
InPool == Flat(taskqueue) \o Flat([w \in Workers |-> worker[w]])

\* C6: the windows of a buffer are those at the offsets 16 * k below its
\* length; the scan of a buffer submits, each exactly once and nothing else,
\* those that do not start with twelve zero bytes; nothing is submitted at
\* any other step, and no window starting with twelve zero bytes is ever in
\* the pool.
C6_WindowsSubmittedOnce ==
    /\ [](\A n \in 1..Len(InPool) : ~TwelveZeros(InPool[n]))
    /\ [][spc = "scan" =>
            \A expected \in {SubmittedWindows(buf)} :
                /\ compressed_data_to_process' = expected
                /\ Flat(taskqueue') = expected
                /\ outstanding' = Len(taskqueue')]_vars
    /\ [][spc # "scan" => Len(InPool') <= Len(InPool)]_vars

\* C6's case: a full buffer was scanned; a window of twelve zero bytes and
\* then data was left out, and the windows around it were submitted
C6_Witness ==
    /\ spc = "collect"
    /\ Len(buf) = read_chunk_size
    /\ \E k \in 1..(BufferBlocks - 2) :
          /\ ZerosAt(buf, k) /\ buf[16 * k + 13] # 0
          /\ ~ZerosAt(buf, k - 1) /\ ~ZerosAt(buf, k + 1)
          /\ \E n \in 1..(Len(Flat(taskqueue)) - 1) :
                /\ Flat(taskqueue)[n] = WindowAt(buf, k - 1)
                /\ Flat(taskqueue)[n + 1] = WindowAt(buf, k + 1)

\* the result the iterator hands out next
NextResult == Head(IF current # <<>> THEN current ELSE Head(items))

\* the step hands out a result
ResultTaken ==
    /\ spc = "collect"
    /\ current # <<>> \/ items # <<>>
    /\ current' # current \/ Len(items') < Len(items)

\* C7: a result shorter than 1024 bytes is not emitted; a longer one than
\* 4096 is emitted cut to its first 4096 bytes; one of 1024 to 4095 bytes is
\* emitted with zero bytes added up to 4096; one of 4096 is emitted as it
\* is.  Every page emitted is 4096 bytes long.
C7_PostProcessing ==
    /\ [](\A n \in 1..Len(stdout) : Len(stdout[n]) = 4096)
    /\ [][ResultTaken =>
            \A d \in {NextResult.value} :
                IF Len(d) < 1024
                THEN stdout' = stdout
                ELSE IF Len(d) > 4096
                THEN stdout' = Append(stdout, SubSeq(d, 1, 4096))
                ELSE IF Len(d) < 4096
                THEN stdout' = Append(stdout,
                                      d \o [j \in 1..(4096 - Len(d)) |-> 0])
                ELSE stdout' = Append(stdout, d)]_vars

\* C7's case: results of 4096, 2000 and 1023 bytes were collected: the
\* first is emitted as it is, the second padded, the third not at all
C7_Witness ==
    /\ FilePath = 4
    /\ spc = "exit"
    /\ Len(stdout) = 2
    /\ stdout[1] = [j \in 1..4096 |-> 66]
    /\ stdout[2] = [j \in 1..4096 |-> IF j <= 2000 THEN 67 ELSE 0]

\* a decoded result as a page
Normalized(d) ==
    IF Len(d) > 4096 THEN SubSeq(d, 1, 4096)
    ELSE d \o [j \in 1..(4096 - Len(d)) |-> 0]

\* the pages due for a list of windows, in the windows' order: one for each
\* window decoded to 1024 bytes or more
PagesOf(windows) ==
    LET decoded == [n \in 1..Len(windows) |->
                        LZ77DecompressBuffer(windows[n]).value]
        long == SelectSeq(decoded, LAMBDA d : Len(d) >= 1024)
    IN  [n \in 1..Len(long) |-> Normalized(long[n])]

\* buffer n of the file, n counted from 0
BufferAt(n) ==
    LET F == FileContents(FilePath)
    IN  [j \in 1..Min(read_chunk_size, Len(F) - n * read_chunk_size) |->
            F[n * read_chunk_size + j]]

\* the number of the buffer at file_pos
BufferNumber == file_pos \div read_chunk_size

\* the pages due for buffer n
PagesOfBuffer(n) == PagesOf(SubmittedWindows(BufferAt(n)))

\* the number of pages due for the buffers before buffer n
RECURSIVE PagesBefore(_)
PagesBefore(n) ==
    IF n = 0 THEN 0 ELSE PagesBefore(n - 1) + Len(PagesOfBuffer(n - 1))

Count(q, x) == Cardinality({n \in 1..Len(q) : q[n] = x})

\* every element is as many times in q as in r, or fewer
SubBag(q, r) == \A n \in 1..Len(q) : Count(q, q[n]) <= Count(r, q[n])

SameBag(q, r) == Len(q) = Len(r) /\ SubBag(q, r)

\* nothing is waiting in the pool, with a worker, or with the iterator
Drained ==
    /\ taskqueue = <<>>
    /\ \A w \in Workers : worker[w] = <<>>
    /\ items = <<>>
    /\ current = <<>>
    /\ outstanding = 0

\* C8: whenever the main process is about to read a buffer, is scanning one
\* just read, or has left the loop, the pool is drained; when it is about
\* to read buffer n the pages written are those of the buffers before n,
\* buffer by buffer in the buffers' order; a buffer is read and windows are
\* dispatched only with the pool drained; and what is written stays
\* written, pages being added at the end only.
C8_BufferOrder ==
    /\ [](spc \in {"start", "while", "scan", "exit"} => Drained)
    /\ [](spc = "while" =>
            /\ Len(stdout) = PagesBefore(BufferNumber)
            /\ \A n \in 0..(BufferNumber - 1) :
                  SameBag(SubSeq(stdout, PagesBefore(n) + 1, PagesBefore(n + 1)),
                          PagesOfBuffer(n)))
    /\ [][buf' # buf => spc = "while" /\ Drained /\ stdout' = stdout]_vars
    /\ [][Len(InPool') > Len(InPool) => spc = "scan" /\ Drained]_vars
    /\ [][Len(stdout') >= Len(stdout)
            /\ SubSeq(stdout', 1, Len(stdout)) = stdout]_vars

\* C8's case: the second buffer was read with the two pages of the first
\* one written and the pool drained
C8_Witness ==
    /\ spc = "scan"
    /\ file_pos = read_chunk_size
    /\ buf = BufferAt(1)
    /\ Len(stdout) = 2
    /\ Drained

\* the pages written for the buffer being processed
PagesOfThisBuffer ==
    SubSeq(stdout, PagesBefore(BufferNumber) + 1, Len(stdout))

\* C9: when the iterator is exhausted, however the workers took and
\* finished the batches, the pages written for the buffer are exactly the
\* pages due for it as a multiset: one page for each submitted window decoded
\* to 1024 bytes or more, none missing, none twice, none of another window.
C9_SameMultiset ==
    (spc = "collect" /\ current = <<>> /\ outstanding = 0) =>
        /\ Len(stdout) >= PagesBefore(BufferNumber)
        /\ SameBag(PagesOfThisBuffer, PagesOf(compressed_data_to_process))

\* C9's case: three pages in three batches, written with the page of the
\* last batch first and the page of the first batch last
C9_Witness ==
    /\ FilePath = 8
    /\ spc = "exit"
    /\ Len(stdout) = 3
    /\ stdout[1][1] = 79
    /\ stdout[2][1] = 78
    /\ stdout[3][1] = 77

\* line 212: the pages the program reads at a time
ProgramReadChunkPages == 32

\* the bytes of the file scanned so far
ScannedUpTo ==
    IF spc \in {"scan", "collect", "raised"} \/ Len(buf) # read_chunk_size
    THEN file_pos + Len(buf) ELSE file_pos

\* C11: the program's buffer size is 32 pages, 131072 bytes.  The file is
\* read in buffers of read_chunk_size bytes at the offsets 0,
\* read_chunk_size, 2 * read_chunk_size, ...: a read takes place at a
\* multiple of the buffer size and gives the bytes of the file from there,
\* a full buffer or what is left; the offset moves by one buffer, after a
\* full buffer only; after a read of fewer bytes than asked for the loop is
\* left once that buffer's results are collected, and nothing is read after
\* the loop is left; at the end every byte of the file was in one buffer.
C11_SequentialBuffers ==
    /\ [](ProgramReadChunkPages * PAGE_SIZE = 131072)
    /\ [](file_pos = BufferNumber * read_chunk_size /\ file_pos <= file_size)
    /\ [](spc \in {"scan", "collect"} => buf = BufferAt(BufferNumber))
    /\ [](spc = "exit" => ScannedUpTo = file_size)
    /\ [][buf' # buf => spc = "while" /\ spc' = "scan"
                          /\ file_pos' = file_pos /\ file_pos < file_size]_vars
    /\ [][file_pos' # file_pos =>
            /\ spc = "collect" /\ spc' = "while"
            /\ Len(buf) = read_chunk_size
            /\ file_pos' = file_pos + read_chunk_size]_vars
    /\ [][(spc = "collect" /\ Len(buf) # read_chunk_size) =>
            spc' \in {"collect", "exit"}]_vars
    /\ [][spc = "exit" => UNCHANGED vars]_vars

\* C11's case: a full buffer and then the last 40 bytes of the file were
\* read and scanned, and the loop was left
C11_Witness ==
    /\ spc = "exit"
    /\ file_size = read_chunk_size + 40
    /\ file_pos = read_chunk_size
    /\ Len(buf) = 40
    /\ buf = BufferAt(1)
    /\ Len(stdout) = 4

\* the k of the windows of data that do not start with twelve zero bytes
SubmittedNumbers(data) ==
    SelectSeq(WindowNumbers(data), LAMBDA k : ~ZerosAt(data, k))

\* byte q of the file, q counted from 0
FileByte(q) == FileContents(FilePath)[q + 1]

\* C15: the scan of a buffer submits one window for each offset p = 16 * k
\* below the buffer's length that passes the filter, short ones included.
\* The window at p is min(4096, len - p) bytes long, shorter than 4096
\* exactly when p > len - 4096; its bytes are the buffer's from p on, the
\* bytes of the file from file_pos + p on, and it ends at the end of the
\* buffer at the latest, whatever the file holds after it.
C15_WindowBounds ==
    [][spc = "scan" =>
        \A ks \in {SubmittedNumbers(buf)} :
            /\ Len(compressed_data_to_process') = Len(ks)
            /\ \A n \in 1..Len(ks) :
                  \A w \in {compressed_data_to_process'[n]} :
                      /\ Len(w) = Min(4096, Len(buf) - 16 * ks[n])
                      /\ Len(w) >= 1
                      /\ (Len(w) < 4096) = (16 * ks[n] > Len(buf) - 4096)
                      /\ 16 * ks[n] + Len(w) <= Len(buf)
                      /\ \A j \in 1..Len(w) :
                            /\ w[j] = buf[16 * ks[n] + j]
                            /\ w[j] = FileByte(file_pos + 16 * ks[n] + j - 1)]_vars

\* C15's case: the last window of a full buffer was submitted with its 16
\* bytes, and the file goes on after the buffer with bytes that are not in
\* the window
C15_Witness ==
    /\ spc = "collect"
    /\ file_pos = 0
    /\ Len(buf) = read_chunk_size
    /\ file_size > read_chunk_size
    /\ FileByte(read_chunk_size + 4) # 0
    /\ compressed_data_to_process # <<>>
    /\ compressed_data_to_process[Len(compressed_data_to_process)]
           = SubSeq(buf, read_chunk_size - 15, read_chunk_size)

\* the value a call on window w returns when it is the only call made
DecodedAlone(w) == Steps(w, DecoderInit, StepLimit(w)).OutputBuffer

\* worker w hands in the results of its batch in this step
Finishes(w) == worker[w] # <<>> /\ worker'[w] = <<>>

\* the windows other workers are decoding
OthersBusy(w) == \E v \in Workers \ {w} : worker[v] # <<>>

\* C16: a call starts with the flag word and count, the positions and the
\* nibble cache empty or zero, whatever call ended before it in the same
\* process.  Whenever a worker hands in a batch, whatever the other workers
\* are decoding or have decoded, there is one result for each window of the
\* batch, in the batch's order, none raised, and each is the value the call
\* returns when the window is decoded alone: windows with the same bytes
\* give the same result.
C16_NoInterference ==
    [][\A w \in Workers : Finishes(w) =>
        /\ Len(items') = Len(items) + 1
        /\ \A r \in {items'[Len(items')]} :
              /\ Len(r) = Len(worker[w])
              /\ \A k \in 1..Len(r) :
                    /\ r[k].returned
                    /\ r[k].value = DecodedAlone(worker[w][k])
        /\ \A k \in 2..Len(worker[w]) :
              \A start \in {Enter(CallOfBatch(worker[w], k - 1))} :
                  /\ start.BufferedFlagCount = 0
                  /\ start.InputPosition = 0
                  /\ start.OutputPosition = 0
                  /\ start.LastLengthHalfByte = 0
                  /\ start.OutputObject = <<>>]_vars

\* C16's case: a worker has decoded, one after the other, a window that
\* ends with a nibble pending and a window with a match of length field 7,
\* and the second result is the page the second window gives alone
C16_Witness ==
    /\ FilePath = 9
    /\ items # <<>>
    /\ Len(items[1]) = 2
    /\ CallOfBatch(compressed_data_to_process, 1).LastLengthHalfByte # 0
    /\ Len(items[1][1].value) = 36
    /\ Len(items[1][2].value) = 1024
    /\ items[1][2].value = DecodedAlone(compressed_data_to_process[2])

====
